---- MODULE Spec2Model ----
(***************************************************************************)
(* Feature-voting backend (Flask + SQLite).                                *)
(*                                                                         *)
(* The durable state is the SQLite database file written by                *)
(* models/database.py: the relations features and votes and their          *)
(* AUTOINCREMENT counters.  Every model method opens its own connection    *)
(* (get_db_connection), so concurrent requests interact only through the   *)
(* database.  The connection is opened with the sqlite3 defaults:          *)
(*   - deferred implicit transactions: a transaction begins with the first *)
(*     INSERT/UPDATE/DELETE of a connection and ends at commit() or, by    *)
(*     rollback, at close(); a SELECT outside a transaction reads the last *)
(*     committed state;                                                    *)
(*   - one writer at a time: the first data-changing statement takes the   *)
(*     database write lock and holds it until commit/close; the changes    *)
(*     stay private to the connection until commit;                        *)
(*   - PRAGMA foreign_keys is never issued, so the FOREIGN KEY ... ON      *)
(*     DELETE CASCADE clause of the votes table is not enforced; the       *)
(*     UNIQUE(feature_id, user_id) constraint is.                          *)
(* Each action below is one storage access of one request, together with   *)
(* the request-local code around it.                                       *)
(***************************************************************************)
EXTENDS Integers, FiniteSets, Sequences, TLC

\* ---------------------------------------------------------------- bounds
NumCallers == 2
NumUsers == 2
MaxFeatureId == 2
MaxVoteId == 2
MaxUuid == 2
MaxClock == 1
MaxLimit == 2
MaxOffset == 2
MaxPad == 2
MaxLeaked == 1
\* the length limits of create_feature
MaxTitleLength == 200
MaxDescriptionLength == 1000

Callers == 1..NumCallers
\* caller-supplied user ids; 0 stands for "no user_id in the request"
Users == 1..NumUsers
NoUser == 0
\* feature ids a request may name
FeatureIds == 1..MaxFeatureId
Titles == {"Dark Mode", "Export"}
\* titles a create request may carry: missing/empty, whitespace only, valid
TitleInputs == {"", " ", "Dark Mode"}

\* the string of n copies of the character c
RECURSIVE Rep(_, _)
Rep(c, n) ==
    IF n = 0 THEN ""
    ELSE IF n % 2 = 0 THEN LET h == Rep(c, n \div 2) IN h \o h
    ELSE c \o Rep(c, n - 1)

\* texts without leading or trailing whitespace, of the lengths around the limits
Texts ==
    {"", "Dark Mode", "Export", "details",
     Rep("x", MaxTitleLength - 1), Rep("x", MaxTitleLength), Rep("x", MaxTitleLength + 1),
     Rep("d", MaxDescriptionLength), Rep("d", MaxDescriptionLength + 1)}
\* titles and descriptions a create request may carry when lengths matter
LongTitleInputs ==
    {"", " ", "  ", "Dark Mode", " Export ",
     Rep("x", MaxTitleLength), Rep("x", MaxTitleLength + 1),
     Rep("x", MaxTitleLength - 1) \o "  "}
DescriptionInputs ==
    {"", " details ", Rep("d", MaxDescriptionLength), Rep("d", MaxDescriptionLength + 1)}

VARIABLES
    db,        \* committed database: what a new connection reads
    tx,        \* working copy of the connection holding the write lock
    writer,    \* the callers (at most one) whose connection holds the write lock
    now,       \* the clock behind CURRENT_TIMESTAMP
    uuids,     \* how many uuid4() tokens have been generated
    pc,        \* per caller: position in its request
    arg,       \* per caller: the request's feature_id, user_id, title
    rowcount,  \* per caller: cursor.rowcount of its last statement
    resp,      \* per caller: the response of the finished request
    raised,    \* per caller: the except clause of its model method ran
    startCount, \* history: vote count of the feature at the request's first storage access
    insCount,   \* history: vote count of the feature just before the request's commit
    quiet,      \* history: no other request changed the feature's votes since this request's commit
    clean,      \* history: the vote request met its feature without a vote of its user, and neither was removed since
    leaked,     \* connections a read opened and, raising, never closed
    retracted   \* history: the retraction that has just succeeded with no other request about: its pair and the count before it

vars == <<db, tx, writer, now, uuids, pc, arg, rowcount, resp, raised, startCount, insCount, quiet, clean, leaked, retracted>>

\* ------------------------------------------------------- database schema
EmptyDb == [features |-> {}, votes |-> {}, feature_seq |-> 0, vote_seq |-> 0]

FeatureRow(id, title, description, t) ==
    [id |-> id, title |-> title, description |-> description,
     created_at |-> t, updated_at |-> t]

VoteRow(id, f, u, t) ==
    [id |-> id, feature_id |-> f, user_id |-> u, created_at |-> t]

\* UNIQUE(feature_id, user_id): may a row for (f, u) be inserted into votes?
UniqueIgnored(votes, f, u) == TRUE
UniqueOk(votes, f, u) ==
    \A v \in votes : ~(v.feature_id = f /\ v.user_id = u)

\* ------------------------------------------------------------- statements
\* SELECT id FROM features WHERE id = ?   /   SELECT * FROM features WHERE id = ?
get_by_id_always(d, f) == {r \in d.features : TRUE}
get_by_id(d, f) == {r \in d.features : r.id = f}

\* SELECT id FROM votes WHERE feature_id = ? AND user_id = ?
has_voted_never(d, f, u) == FALSE
has_voted_any(d, f, u) == \E v \in d.votes : v.feature_id = f
has_voted(d, f, u) ==
    \E v \in d.votes : v.feature_id = f /\ v.user_id = u

\* SELECT * FROM votes WHERE feature_id = ?
get_votes_by_feature(d, f) == {v \in d.votes : v.feature_id = f}

\* SELECT feature_id FROM votes WHERE user_id = ?: the rows selected
get_user_votes_any(d, u) == d.votes
get_user_votes(d, u) == {v \in d.votes : v.user_id = u}

\* SELECT COUNT(*) FROM votes WHERE feature_id = ?
get_vote_count_all(d, f) == Cardinality(d.votes)
get_vote_count(d, f) == Cardinality({v \in d.votes : v.feature_id = f})

\* INSERT INTO features (title, description) VALUES (?, ?); id INTEGER PRIMARY
\* KEY AUTOINCREMENT: the new id is one more than the largest id ever assigned
InsertFeatureReusing(d, title, description, t) ==
    [d EXCEPT !.features = @ \cup {FeatureRow(Cardinality(d.features) + 1, title, description, t)},
              !.feature_seq = @ + 1]
InsertFeature(d, title, description, t) ==
    [d EXCEPT !.features = @ \cup {FeatureRow(d.feature_seq + 1, title, description, t)},
              !.feature_seq = @ + 1]

\* UPDATE features SET title = ?, description = ?, updated_at = CURRENT_TIMESTAMP WHERE id = ?
UpdateFeatureEveryRow(d, f, title, description, t) ==
    [d EXCEPT !.features =
        {[r EXCEPT !.title = title, !.description = description, !.updated_at = t] : r \in @}]
UpdateFeature(d, f, title, description, t) ==
    [d EXCEPT !.features =
        {IF r.id = f
           THEN [r EXCEPT !.title = title, !.description = description, !.updated_at = t]
           ELSE r : r \in @}]

\* INSERT INTO votes (feature_id, user_id) VALUES (?, ?)
InsertVote(d, f, u, t) ==
    [d EXCEPT !.votes = @ \cup {VoteRow(d.vote_seq + 1, f, u, t)},
              !.vote_seq = @ + 1]

\* DELETE FROM votes WHERE feature_id = ? AND user_id = ?
DeleteVoteAnyFeature(d, f, u) ==
    [d EXCEPT !.votes = {v \in @ : v.user_id # u}]
DeleteVote(d, f, u) ==
    [d EXCEPT !.votes = {v \in @ : ~(v.feature_id = f /\ v.user_id = u)}]

\* DELETE FROM votes WHERE feature_id = ?
DeleteVotesById(d, f) ==
    [d EXCEPT !.votes = {v \in @ : v.id # f}]
DeleteVotesOf(d, f) ==
    [d EXCEPT !.votes = {v \in @ : v.feature_id # f}]

\* DELETE FROM features WHERE id = ?
DeleteFeatureRowsFrom(d, f) ==
    [d EXCEPT !.features = {r \in @ : r.id < f}]
DeleteFeatureRow(d, f) ==
    [d EXCEPT !.features = {r \in @ : r.id # f}]

\* SELECT f.id, f.title, f.description, f.created_at, f.updated_at,
\*        COUNT(v.id) as vote_count
\* FROM features f LEFT JOIN votes v ON f.id = v.feature_id GROUP BY f.id:
\* the row of feature r with its number of votes
ItemCountingAll(d, r) ==
    [id |-> r.id, title |-> r.title, description |-> r.description,
     created_at |-> r.created_at, updated_at |-> r.updated_at,
     vote_count |-> Cardinality(d.votes)]
Item(d, r) ==
    [id |-> r.id, title |-> r.title, description |-> r.description,
     created_at |-> r.created_at, updated_at |-> r.updated_at,
     vote_count |-> Cardinality({v \in d.votes : v.feature_id = r.id})]
Items(d) == {Item(d, r) : r \in d.features}

\* ORDER BY vote_count DESC, f.created_at DESC: may row a come before row b?
OrderByOldestFirst(a, b) ==
    \/ a.vote_count > b.vote_count
    \/ a.vote_count = b.vote_count /\ a.created_at <= b.created_at
OrderBy(a, b) ==
    \/ a.vote_count > b.vote_count
    \/ a.vote_count = b.vote_count /\ a.created_at >= b.created_at

\* the sequences that hold every element of S once
Perms(S) ==
    {s \in [1..Cardinality(S) -> S] : \A x \in S : \E i \in 1..Cardinality(S) : s[i] = x}

\* the order in which a search of idx_votes_feature_id or idx_votes_user_id
\* visits the vote rows of one key: the index entries are (key, rowid)
ScanOrderReversed(a, b) == a.id > b.id
ScanOrder(a, b) == a.id < b.id

\* cursor.fetchall() of a query on votes by feature_id or by user_id: the
\* selected rows S as the index search delivers them
fetchall(S) ==
    {s \in Perms(S) : \A i \in 1..(Len(s) - 1) : ScanOrder(s[i], s[i + 1])}

\* Feature.get_all_with_votes: the results the query allows.  Rows that agree
\* in vote_count and created_at come in an order the query does not fix
get_all_with_votes(d) ==
    {s \in Perms(Items(d)) : \A i \in 1..(Len(s) - 1) : OrderBy(s[i], s[i + 1])}

\* features[offset:offset + limit] for offset, limit >= 0
Slice(s, offset, limit) ==
    SubSeq(s, offset + 1, IF offset + limit < Len(s) THEN offset + limit ELSE Len(s))

\* what the database holds after conn.commit() of working copy t
CommitLost(d, t) == d
Commit(d, t) == t

\* what the database holds after conn.close() with working copy t uncommitted
RollbackKeeps(d, t) == t
Rollback(d, t) == d

\* -------------------------------------------------------------- responses
NoCount == -1
Resp(code, msg, count, user) ==
    [code |-> code, msg |-> msg, vote_count |-> count, user_id |-> user,
     features |-> <<>>, total_count |-> NoCount, returned_count |-> NoCount,
     votes |-> <<>>, voted_features |-> <<>>]
NoResp == Resp(0, "", NoCount, NoUser)
\* the kinds of request
Ops == {"create", "update", "delete", "vote", "retract", "get", "votes", "list", "uservotes"}
NoLimit == -1
Arg(op, f, u) ==
    [op |-> op, f |-> f, u |-> u, title |-> "", description |-> "",
     limit |-> NoLimit, offset |-> 0]
NoArg == Arg("", 0, NoUser)
\* history: no retraction is being followed
NoRetract == [f |-> 0, u |-> NoUser, n |-> 0]

\* s is the text c with whitespace before and after it
Trimmed(s, c) ==
    \E i \in 0..MaxPad : \E j \in 0..MaxPad : s = Rep(" ", i) \o c \o Rep(" ", j)

\* str.strip() on the strings a request may carry
strip_none(s) == s
strip(s) == CHOOSE c \in Texts : Trimmed(s, c)

Init ==
    /\ db = EmptyDb
    /\ tx = EmptyDb
    /\ writer = {}
    /\ now = 0
    /\ uuids = 0
    /\ pc = [p \in Callers |-> "idle"]
    /\ arg = [p \in Callers |-> NoArg]
    /\ rowcount = [p \in Callers |-> 0]
    /\ resp = [p \in Callers |-> NoResp]
    /\ raised = [p \in Callers |-> FALSE]
    /\ startCount = [p \in Callers |-> 0]
    /\ insCount = [p \in Callers |-> 0]
    /\ quiet = [p \in Callers |-> TRUE]
    /\ clean = [p \in Callers |-> FALSE]
    /\ leaked = 0
    /\ retracted = NoRetract

\* ------------------------------------------------------------ bookkeeping
VotePcs == {"av_dup", "av_insert", "av_commit"}
CountPcs == {"av_count", "rv_count"}

\* no caller but p is in the middle of a request
Alone(p) == \A q \in Callers \ {p} : pc[q] \in {"idle", "done"}

\* the request caller p is making in this step
Req(p) == IF pc[p] = "idle" THEN arg'[p] ELSE arg[p]

\* history: a step of caller p's request.  A retraction that succeeds while no
\* other request is under way, and whose count read nothing disturbed, is
\* recorded with the count before it; the record is kept through the steps of
\* a vote request for the same pair made while no other request is under way,
\* and dropped by every other step
Track(p) ==
    retracted' =
        IF /\ pc[p] = "rv_count" /\ pc'[p] = "done" /\ resp'[p].code = 200
           /\ quiet[p] /\ Alone(p)
          THEN [f |-> arg[p].f, u |-> arg[p].u, n |-> startCount[p]]
        ELSE IF /\ retracted # NoRetract
                /\ Req(p) = Arg("vote", retracted.f, retracted.u)
                /\ pc'[p] # "done" /\ Alone(p)
          THEN retracted
        ELSE NoRetract

\* the request of caller p ends with response r
FinishWithoutReply(p, r) ==
    /\ UNCHANGED <<pc, resp, startCount, insCount>>
    /\ Track(p)
Finish(p, r) ==
    /\ pc' = [pc EXCEPT ![p] = "done"]
    /\ resp' = [resp EXCEPT ![p] = r]
    /\ Track(p)
    /\ startCount' = [startCount EXCEPT ![p] = 0]
    /\ insCount' = [insCount EXCEPT ![p] = 0]

\* the request of caller p goes on at label
Goto(p, label) ==
    /\ pc' = [pc EXCEPT ![p] = label]
    /\ Track(p)
    /\ UNCHANGED <<resp, startCount, insCount>>

\* the same, recording the vote counts sc (at the request's start) and ic (before its commit)
GotoCounting(p, label, sc, ic) ==
    /\ pc' = [pc EXCEPT ![p] = label]
    /\ Track(p)
    /\ startCount' = [startCount EXCEPT ![p] = sc]
    /\ insCount' = [insCount EXCEPT ![p] = ic]
    /\ UNCHANGED resp

\* the vote rows of feature f, and of the pair (f, u), in database d
Rows(d, f) == {v \in d.votes : v.feature_id = f}
PairRows(d, f, u) == {v \in d.votes : v.feature_id = f /\ v.user_id = u}
Present(d, f) == \E r \in d.features : r.id = f

\* history: a commit producing d2 spoils every other vote request whose feature,
\* or whose user's vote for it, the commit removes
Spoil(p, d2) ==
    [q \in Callers |->
        IF q = p THEN clean[p]
        ELSE IF /\ arg[q].op = "vote"
                /\ \/ Present(db, arg[q].f) /\ ~Present(d2, arg[q].f)
                   \/ PairRows(db, arg[q].f, arg[q].u) # {} /\ PairRows(d2, arg[q].f, arg[q].u) = {}
             THEN FALSE
             ELSE clean[q]]

\* history: a commit producing d2 by caller p disturbs every other request that
\* waits, between its own commit and its count read, on a feature whose votes change
Disturb(p, d2) ==
    [q \in Callers |->
        IF q = p THEN TRUE
        ELSE IF /\ pc[q] \in CountPcs
                /\ Rows(d2, arg[q].f) # Rows(db, arg[q].f)
             THEN FALSE
             ELSE quiet[q]]

\* ------------------------------------------------------------------ clock
Tick ==
    /\ now < MaxClock
    /\ now' = now + 1
    /\ UNCHANGED <<db, tx, writer, uuids, pc, arg, rowcount, resp, startCount, insCount, quiet, raised, clean, retracted, leaked>>

\* ------------------------------------------- POST /api/features (create)
\* routes/features.py create_feature: the validation that rejects the request
create_feature_invalid(p, title, description) ==
    /\ pc[p] = "idle"
    /\ \/ title = ""
       \/ strip(title) = ""
       \/ Len(title) > MaxTitleLength
       \/ Len(description) > MaxDescriptionLength
    /\ arg' = [arg EXCEPT ![p] = [Arg("create", 0, NoUser) EXCEPT !.title = title,
                                                                 !.description = description]]
    /\ Finish(p, Resp(400, IF title = "" THEN "Title is required"
                           ELSE IF strip(title) = "" THEN "Title cannot be empty"
                           ELSE IF Len(title) > MaxTitleLength
                                  THEN "Title too long (max 200 characters)"
                           ELSE "Description too long (max 1000 characters)",
                      NoCount, NoUser))
    /\ UNCHANGED <<db, tx, writer, now, uuids, rowcount, quiet, raised, clean, leaked>>

\* create_feature -> Feature.save with id None: the INSERT, which opens the
\* transaction; self.id = cursor.lastrowid
save_insert(p, title, description) ==
    /\ pc[p] = "idle"
    /\ title # "" /\ strip(title) # ""
    /\ Len(title) <= MaxTitleLength
    /\ Len(description) <= MaxDescriptionLength
    /\ writer = {}
    /\ db.feature_seq < MaxFeatureId
    /\ tx' = InsertFeature(db, strip(title), strip(description), now)
    /\ writer' = {p}
    /\ arg' = [arg EXCEPT ![p] = [Arg("create", db.feature_seq + 1, NoUser)
                                    EXCEPT !.title = title, !.description = description]]
    /\ Goto(p, "save_commit")
    /\ UNCHANGED <<db, now, uuids, rowcount, quiet, raised, clean, leaked>>

\* Feature.save with an id: the UPDATE, which opens the transaction
save_update(p, f, title) ==
    /\ pc[p] = "idle"
    /\ f \in FeatureIds
    /\ title \in Titles
    /\ writer = {}
    /\ tx' = UpdateFeature(db, f, title, "", now)
    /\ writer' = {p}
    /\ arg' = [arg EXCEPT ![p] = [Arg("update", f, NoUser) EXCEPT !.title = title]]
    /\ Goto(p, "save_commit")
    /\ UNCHANGED <<db, now, uuids, rowcount, quiet, raised, clean, leaked>>

\* Feature.save: conn.commit(), return True; create_feature answers 201
save_commit(p) ==
    /\ pc[p] = "save_commit"
    /\ db' = Commit(db, tx)
    /\ tx' = EmptyDb
    /\ writer' = {}
    /\ quiet' = Disturb(p, Commit(db, tx))
    /\ Finish(p, IF arg[p].op = "create"
                   THEN Resp(201, "created", 0, NoUser)
                   ELSE Resp(0, "True", NoCount, NoUser))
    /\ clean' = Spoil(p, Commit(db, tx))
    /\ UNCHANGED <<now, uuids, arg, rowcount, raised, leaked>>

\* ------------------------------------- DELETE /api/features/<id> (delete)
\* delete_feature: Feature.get_by_id, 404 when absent
delete_feature_check(p, f) ==
    /\ pc[p] = "idle"
    /\ f \in FeatureIds
    /\ arg' = [arg EXCEPT ![p] = Arg("delete", f, NoUser)]
    /\ IF get_by_id(db, f) = {}
         THEN Finish(p, Resp(404, "Feature not found", NoCount, NoUser))
         ELSE Goto(p, "del_votes")
    /\ UNCHANGED <<db, tx, writer, now, uuids, rowcount, quiet, raised, clean, leaked>>

\* Feature.delete: DELETE FROM votes WHERE feature_id = ?, which opens the transaction
delete_votes(p) ==
    /\ pc[p] = "del_votes"
    /\ writer = {}
    /\ tx' = DeleteVotesOf(db, arg[p].f)
    /\ writer' = {p}
    /\ Goto(p, "del_feature")
    /\ UNCHANGED <<db, now, uuids, arg, rowcount, quiet, raised, clean, leaked>>

\* Feature.delete: DELETE FROM features WHERE id = ?; cursor.rowcount is its row count
delete_feature_row(p) ==
    /\ pc[p] = "del_feature"
    /\ tx' = DeleteFeatureRow(tx, arg[p].f)
    /\ rowcount' = [rowcount EXCEPT ![p] = Cardinality(get_by_id(tx, arg[p].f))]
    /\ Goto(p, "del_commit")
    /\ UNCHANGED <<db, writer, now, uuids, arg, quiet, raised, clean, leaked>>

\* Feature.delete: conn.commit(), return rowcount > 0; delete_feature answers 200 or 500
delete_commit(p) ==
    /\ pc[p] = "del_commit"
    /\ db' = Commit(db, tx)
    /\ tx' = EmptyDb
    /\ writer' = {}
    /\ quiet' = Disturb(p, Commit(db, tx))
    /\ Finish(p, IF rowcount[p] > 0
                   THEN Resp(200, "Feature deleted successfully", NoCount, NoUser)
                   ELSE Resp(500, "Failed to delete feature", NoCount, NoUser))
    /\ clean' = Spoil(p, Commit(db, tx))
    /\ UNCHANGED <<now, uuids, arg, rowcount, raised, leaked>>

\* --------------------------------- POST /api/features/<id>/vote (castVote)
\* the user_id of the request, or str(uuid.uuid4()) when it carries none:
\* the k-th generated token is written -k
uuid4_fixed(k) == 0 - 1
uuid4(k) == 0 - k
InFlightVotes == Cardinality({q \in Callers : pc[q] \in VotePcs})

\* vote_for_feature -> Vote.add_vote: SELECT id FROM features WHERE id = ?
add_vote_check_feature(p, f, u) ==
    /\ pc[p] = "idle"
    /\ f \in FeatureIds
    /\ u \in Users \cup {NoUser}
    /\ db.vote_seq + InFlightVotes < MaxVoteId
    /\ u = NoUser => uuids < MaxUuid
    /\ uuids' = IF u = NoUser THEN uuids + 1 ELSE uuids
    /\ arg' = [arg EXCEPT ![p] = Arg("vote", f, IF u = NoUser THEN uuid4(uuids + 1) ELSE u)]
    /\ IF get_by_id(db, f) = {}
         THEN Finish(p, Resp(404, "Feature not found", NoCount, NoUser))
         ELSE GotoCounting(p, "av_dup", Cardinality(Rows(db, f)), 0)
    /\ clean' = [clean EXCEPT ![p] = Present(db, f) /\ PairRows(db, f, u) = {}]
    /\ UNCHANGED <<db, tx, writer, now, rowcount, quiet, raised, leaked>>

\* Vote.add_vote: SELECT id FROM votes WHERE feature_id = ? AND user_id = ?
add_vote_check_duplicate(p) ==
    /\ pc[p] = "av_dup"
    /\ IF has_voted(db, arg[p].f, arg[p].u)
         THEN Finish(p, Resp(409, "User has already voted for this feature", NoCount, NoUser))
         ELSE Goto(p, "av_insert")
    /\ UNCHANGED <<db, tx, writer, now, uuids, arg, rowcount, quiet, raised, clean, leaked>>

\* Vote.add_vote: the INSERT, which opens the transaction.  A row breaking
\* UNIQUE(feature_id, user_id) raises sqlite3.IntegrityError, which the except
\* clause turns into 'Error adding vote' (400 in vote_for_feature); close() ends
\* the transaction
add_vote_insert(p) ==
    /\ pc[p] = "av_insert"
    /\ writer = {}
    /\ IF UniqueOk(db.votes, arg[p].f, arg[p].u)
         THEN /\ tx' = InsertVote(db, arg[p].f, arg[p].u, now)
              /\ writer' = {p}
              /\ Goto(p, "av_commit")
              /\ UNCHANGED raised
         ELSE /\ Finish(p, Resp(400, "Error adding vote", NoCount, NoUser))
              /\ raised' = [raised EXCEPT ![p] = TRUE]
              /\ UNCHANGED <<tx, writer>>
    /\ UNCHANGED <<db, now, uuids, arg, rowcount, quiet, clean, leaked>>

\* Vote.add_vote: conn.commit(), return success with the user_id
add_vote_commit(p) ==
    /\ pc[p] = "av_commit"
    /\ db' = Commit(db, tx)
    /\ tx' = EmptyDb
    /\ writer' = {}
    /\ quiet' = Disturb(p, Commit(db, tx))
    /\ GotoCounting(p, "av_count", startCount[p], Cardinality(Rows(db, arg[p].f)))
    /\ clean' = Spoil(p, Commit(db, tx))
    /\ UNCHANGED <<now, uuids, arg, rowcount, raised, leaked>>

\* vote_for_feature: Vote.get_vote_count after a successful add_vote, 201
vote_for_feature_count(p) ==
    /\ pc[p] = "av_count"
    /\ Finish(p, Resp(201, "Vote added successfully",
                      get_vote_count(db, arg[p].f), arg[p].u))
    /\ quiet' = [quiet EXCEPT ![p] = TRUE]
    /\ UNCHANGED <<db, tx, writer, now, uuids, arg, rowcount, raised, clean, leaked>>

\* ----------------------------- DELETE /api/features/<id>/vote (retractVote)
\* remove_vote_from_feature: a request without user_id is answered 400
remove_vote_no_user(p, f) ==
    /\ pc[p] = "idle"
    /\ f \in FeatureIds
    /\ arg' = [arg EXCEPT ![p] = Arg("retract", 0, NoUser)]
    /\ Finish(p, Resp(400, "User ID is required", NoCount, NoUser))
    /\ UNCHANGED <<db, tx, writer, now, uuids, rowcount, quiet, raised, clean, leaked>>

\* Vote.remove_vote: DELETE FROM votes WHERE feature_id = ? AND user_id = ?,
\* which opens the transaction; cursor.rowcount is the number of rows deleted
remove_vote_delete(p, f, u) ==
    /\ pc[p] = "idle"
    /\ f \in FeatureIds
    /\ u \in Users
    /\ writer = {}
    /\ tx' = DeleteVote(db, f, u)
    /\ writer' = {p}
    /\ rowcount' = [rowcount EXCEPT ![p] =
                      Cardinality(db.votes) - Cardinality(DeleteVote(db, f, u).votes)]
    /\ arg' = [arg EXCEPT ![p] = Arg("retract", f, u)]
    /\ GotoCounting(p, "rv_commit", Cardinality(Rows(db, f)), 0)
    /\ UNCHANGED <<db, now, uuids, quiet, raised, clean, leaked>>

\* Vote.remove_vote: conn.commit(), then rowcount > 0 decides between success
\* and 'Vote not found' (404 in remove_vote_from_feature)
remove_vote_commit(p) ==
    /\ pc[p] = "rv_commit"
    /\ db' = Commit(db, tx)
    /\ tx' = EmptyDb
    /\ writer' = {}
    /\ quiet' = Disturb(p, Commit(db, tx))
    /\ IF rowcount[p] > 0
         THEN Goto(p, "rv_count")
         ELSE Finish(p, Resp(404, "Vote not found", NoCount, NoUser))
    /\ clean' = Spoil(p, Commit(db, tx))
    /\ UNCHANGED <<now, uuids, arg, rowcount, raised, leaked>>

\* remove_vote_from_feature: Vote.get_vote_count after a successful remove_vote, 200
remove_vote_count(p) ==
    /\ pc[p] = "rv_count"
    /\ Finish(p, Resp(200, "Vote removed successfully",
                      get_vote_count(db, arg[p].f), NoUser))
    /\ quiet' = [quiet EXCEPT ![p] = TRUE]
    /\ UNCHANGED <<db, tx, writer, now, uuids, arg, rowcount, raised, clean, leaked>>

\* ------------------------------------------ GET /api/features/<id> (getFeature)
\* get_feature: Feature.get_by_id, 404 when absent
get_feature(p, f) ==
    /\ pc[p] = "idle"
    /\ f \in FeatureIds
    /\ arg' = [arg EXCEPT ![p] = Arg("get", f, NoUser)]
    /\ IF get_by_id(db, f) = {}
         THEN Finish(p, Resp(404, "Feature not found", NoCount, NoUser))
         ELSE Goto(p, "gf_count")
    /\ UNCHANGED <<db, tx, writer, now, uuids, rowcount, quiet, raised, clean, leaked>>

\* get_feature: Vote.get_vote_count, 200
get_feature_count(p) ==
    /\ pc[p] = "gf_count"
    /\ Finish(p, Resp(200, "feature", get_vote_count(db, arg[p].f), NoUser))
    /\ UNCHANGED <<db, tx, writer, now, uuids, arg, rowcount, quiet, raised, clean, leaked>>

\* ----------------------------- GET /api/features/<id>/votes (votesOfFeature)
\* get_feature_votes: Feature.get_by_id, 404 when absent
get_feature_votes(p, f) ==
    /\ pc[p] = "idle"
    /\ f \in FeatureIds
    /\ arg' = [arg EXCEPT ![p] = Arg("votes", f, NoUser)]
    /\ IF get_by_id(db, f) = {}
         THEN Finish(p, Resp(404, "Feature not found", NoCount, NoUser))
         ELSE Goto(p, "fv_read")
    /\ UNCHANGED <<db, tx, writer, now, uuids, rowcount, quiet, raised, clean, leaked>>

\* get_feature_votes: Vote.get_votes_by_feature, 200 with len(votes)
get_feature_votes_read(p) ==
    /\ pc[p] = "fv_read"
    /\ \E s \in fetchall(get_votes_by_feature(db, arg[p].f)) :
          Finish(p, [Resp(200, "votes", Len(s), NoUser) EXCEPT !.votes = s])
    /\ UNCHANGED <<db, tx, writer, now, uuids, arg, rowcount, quiet, raised, clean, leaked>>

\* ------------------------------- GET /api/users/<user_id>/votes (votesOfUser)
\* get_user_votes: Vote.get_user_votes, the feature_id of every row, 200 with
\* len(voted_features)
get_user_votes_request(p, u) ==
    /\ pc[p] = "idle"
    /\ arg' = [arg EXCEPT ![p] = Arg("uservotes", 0, u)]
    /\ \E s \in fetchall(get_user_votes(db, u)) :
          Finish(p, [Resp(200, "user votes", Len(s), u)
                       EXCEPT !.voted_features = [i \in 1..Len(s) |-> s[i].feature_id]])
    /\ UNCHANGED <<db, tx, writer, now, uuids, rowcount, quiet, raised, clean, leaked>>

\* ------------------------------------------ GET /api/features (listFeatures)
\* get_features: limit and offset of the query string (limit may be absent),
\* Feature.get_all_with_votes, and the slice taken when limit is truthy
get_features(p, limit, offset) ==
    /\ pc[p] = "idle"
    /\ limit \in {NoLimit} \cup (0..MaxLimit)
    /\ offset \in 0..MaxOffset
    /\ arg' = [arg EXCEPT ![p] = [Arg("list", 0, NoUser) EXCEPT !.limit = limit, !.offset = offset]]
    /\ \E s \in get_all_with_votes(db) :
          resp' = [resp EXCEPT ![p] =
                     [NoResp EXCEPT !.features = IF limit # NoLimit /\ limit # 0
                                                   THEN Slice(s, offset, limit)
                                                   ELSE s]]
    /\ pc' = [pc EXCEPT ![p] = "gl_total"]
    /\ Track(p)
    /\ UNCHANGED <<db, tx, writer, now, uuids, rowcount, raised, startCount, insCount, quiet, clean, leaked>>

\* get_features: the second Feature.get_all_with_votes, for total_count; 200
get_features_total(p) ==
    /\ pc[p] = "gl_total"
    /\ \E s \in get_all_with_votes(db) :
          Finish(p, [resp[p] EXCEPT !.code = 200, !.msg = "features",
                                    !.total_count = Len(s),
                                    !.returned_count = Len(resp[p].features)])
    /\ UNCHANGED <<db, tx, writer, now, uuids, arg, rowcount, quiet, raised, clean, leaked>>

\* ---------------------------------------------------------------- return
\* history: callers p and q hold vote requests for the same pair; when one of
\* them returns the record of their race is incomplete, so the other is spoiled
SameVote(p, q) == arg[p].op = "vote" /\ arg[q] = arg[p]

\* the response has been sent: the caller may issue its next request
Return(p) ==
    /\ pc[p] = "done"
    /\ pc' = [pc EXCEPT ![p] = "idle"]
    /\ arg' = [arg EXCEPT ![p] = NoArg]
    /\ rowcount' = [rowcount EXCEPT ![p] = 0]
    /\ resp' = [resp EXCEPT ![p] = NoResp]
    /\ raised' = [raised EXCEPT ![p] = FALSE]
    /\ startCount' = [startCount EXCEPT ![p] = 0]
    /\ insCount' = [insCount EXCEPT ![p] = 0]
    /\ quiet' = [quiet EXCEPT ![p] = TRUE]
    /\ clean' = [q \in Callers |-> clean[q] /\ q # p /\ ~SameVote(p, q)]
    /\ UNCHANGED <<db, tx, writer, now, uuids, retracted, leaked>>

\* the requests of the HTTP API that change the database
Mutations ==
    \/ \E p \in Callers, title \in TitleInputs : create_feature_invalid(p, title, "")
    \/ \E p \in Callers, title \in TitleInputs : save_insert(p, title, "")
    \/ \E p \in Callers : save_commit(p)
    \/ \E p \in Callers, f \in FeatureIds : delete_feature_check(p, f)
    \/ \E p \in Callers : delete_votes(p)
    \/ \E p \in Callers : delete_feature_row(p)
    \/ \E p \in Callers : delete_commit(p)
    \/ \E p \in Callers, f \in FeatureIds, u \in Users : add_vote_check_feature(p, f, u)
    \/ \E p \in Callers : add_vote_check_duplicate(p)
    \/ \E p \in Callers : add_vote_insert(p)
    \/ \E p \in Callers : add_vote_commit(p)
    \/ \E p \in Callers : vote_for_feature_count(p)
    \/ \E p \in Callers, f \in FeatureIds : remove_vote_no_user(p, f)
    \/ \E p \in Callers, f \in FeatureIds, u \in Users : remove_vote_delete(p, f, u)
    \/ \E p \in Callers : remove_vote_commit(p)
    \/ \E p \in Callers : remove_vote_count(p)
    \/ \E p \in Callers : Return(p)

\* the requests of the HTTP API that only read
Reads ==
    \/ \E p \in Callers, f \in FeatureIds : get_feature(p, f)
    \/ \E p \in Callers : get_feature_count(p)
    \/ \E p \in Callers, f \in FeatureIds : get_feature_votes(p, f)
    \/ \E p \in Callers : get_feature_votes_read(p)
    \/ \E p \in Callers, u \in Users : get_user_votes_request(p, u)

\* Spec: callers issue the requests of the HTTP API concurrently (the clock
\* stands still, the storage engine answers every call, and every vote request
\* carries a user_id)
Next ==
    \/ Mutations
    \/ Reads

Spec == Init /\ [][Next]_vars

\* SpecAnon: the mutations of the API, where a vote request may also come
\* without a user_id
NextAnon ==
    \/ Mutations
    \/ \E p \in Callers, f \in FeatureIds : add_vote_check_feature(p, f, NoUser)

SpecAnon == Init /\ [][NextAnon]_vars

\* SpecCreate: callers create features with titles and descriptions of every
\* kind the validation tells apart
NextCreate ==
    \/ \E p \in Callers, title \in LongTitleInputs, description \in DescriptionInputs :
          create_feature_invalid(p, title, description)
    \/ \E p \in Callers, title \in LongTitleInputs, description \in DescriptionInputs :
          save_insert(p, title, description)
    \/ \E p \in Callers : save_commit(p)
    \/ \E p \in Callers : Return(p)

SpecCreate == Init /\ [][NextCreate]_vars

\* SpecUpdate: features are created, voted for and updated through
\* Feature.save while the clock runs
NextUpdate ==
    \/ Tick
    \/ \E p \in Callers, title \in TitleInputs : save_insert(p, title, "")
    \/ \E p \in Callers, f \in FeatureIds, title \in Titles : save_update(p, f, title)
    \/ \E p \in Callers : save_commit(p)
    \/ \E p \in Callers, f \in FeatureIds, u \in Users : add_vote_check_feature(p, f, u)
    \/ \E p \in Callers : add_vote_check_duplicate(p)
    \/ \E p \in Callers : add_vote_insert(p)
    \/ \E p \in Callers : add_vote_commit(p)
    \/ \E p \in Callers : vote_for_feature_count(p)
    \/ \E p \in Callers : Return(p)

SpecUpdate == Init /\ [][NextUpdate]_vars

\* SpecVisible: every mutation, Feature.save on an existing id included, runs
\* concurrently with every read of the API
NextVisible ==
    \/ Next
    \/ \E p \in Callers, f \in FeatureIds : save_update(p, f, "Export")
    \/ \E p \in Callers : get_features(p, NoLimit, 0)
    \/ \E p \in Callers : get_features_total(p)

SpecVisible == Init /\ [][NextVisible]_vars

\* a step of the request caller p has under way
Continue(p) ==
    \/ save_commit(p)
    \/ delete_votes(p)
    \/ delete_feature_row(p)
    \/ delete_commit(p)
    \/ add_vote_check_duplicate(p)
    \/ add_vote_insert(p)
    \/ add_vote_commit(p)
    \/ vote_for_feature_count(p)
    \/ remove_vote_commit(p)
    \/ remove_vote_count(p)
    \/ get_feature_count(p)
    \/ get_feature_votes_read(p)

\* SpecLive: the requests of Spec, where every request under way goes on: the
\* server runs each handler to its end, and a handler waiting for the write
\* lock gets it if it is free again and again
SpecLive == Init /\ [][Next]_vars /\ \A p \in Callers : SF_vars(Continue(p))

\* SpecRank: features are created and voted for while the clock runs, and
\* callers list the features, with and without limit and offset
NextRank ==
    \/ Tick
    \/ \E p \in Callers, title \in TitleInputs : save_insert(p, title, "")
    \/ \E p \in Callers : save_commit(p)
    \/ \E p \in Callers, f \in FeatureIds, u \in Users : add_vote_check_feature(p, f, u)
    \/ \E p \in Callers : add_vote_check_duplicate(p)
    \/ \E p \in Callers : add_vote_insert(p)
    \/ \E p \in Callers : add_vote_commit(p)
    \/ \E p \in Callers : vote_for_feature_count(p)
    \/ \E p \in Callers, limit \in {NoLimit} \cup (0..MaxLimit), offset \in 0..MaxOffset :
          get_features(p, limit, offset)
    \/ \E p \in Callers : get_features_total(p)
    \/ \E p \in Callers : Return(p)

SpecRank == Init /\ [][NextRank]_vars

\* ------------------------------------------------------- storage failures
\* A storage call may raise (sqlite3.OperationalError: the database stays locked
\* past the connection's timeout, the disk fails).  Inside a model method the
\* except clause prints the error and returns the method's failure result, and
\* finally: conn.close() discards the connection's uncommitted transaction.
MethodPcs == {"av_dup", "av_insert", "av_commit", "rv_commit",
              "del_votes", "del_feature", "del_commit", "save_commit"}
ReadPcs == {"av_count", "rv_count", "gf_count", "fv_read", "gl_total"}

\* what the route answers when the model method of request kind op fails
MethodFailure(op) ==
    CASE op = "vote"    -> Resp(400, "Error adding vote", NoCount, NoUser)
      [] op = "retract" -> Resp(404, "Error removing vote", NoCount, NoUser)
      [] op = "delete"  -> Resp(500, "Failed to delete feature", NoCount, NoUser)
      [] op = "create"  -> Resp(500, "Failed to create feature", NoCount, NoUser)
      [] OTHER          -> Resp(0, "False", NoCount, NoUser)

\* what the route answers when a call outside a model method's try raises
InternalError == Resp(500, "Internal server error", NoCount, NoUser)

\* the places at which a read method raises: 0 is sqlite3.connect, before a
\* connection exists; 1 is cursor.execute, with the connection open
RaisePlaces == {0, 1}

\* a read method (get_by_id, get_all_with_votes, has_voted, get_user_votes,
\* get_vote_count, get_votes_by_feature) raises at place k: in sqlite3.connect,
\* before a connection exists, or in cursor.execute, and then the conn.close()
\* that follows it is not reached
read_raises(k) ==
    /\ k \in RaisePlaces
    /\ leaked + k <= MaxLeaked
    /\ leaked' = leaked + k

\* the positions at which a caller's model method holds the connection it
\* opened: from its first statement to its return, where finally closes it
ConnPcs == {"av_dup", "av_insert", "av_commit", "rv_commit",
            "del_feature", "del_commit", "save_commit"}

\* the number of connections that are open
OpenConnections == Cardinality({p \in Callers : pc[p] \in ConnPcs}) + leaked

\* a storage call of a model method already under way raises
model_method_fault(p) ==
    /\ pc[p] \in MethodPcs
    /\ db' = IF p \in writer THEN Rollback(db, tx) ELSE db
    /\ tx' = IF p \in writer THEN EmptyDb ELSE tx
    /\ writer' = writer \ {p}
    /\ raised' = [raised EXCEPT ![p] = TRUE]
    /\ Finish(p, MethodFailure(arg[p].op))
    /\ UNCHANGED <<now, uuids, arg, rowcount, quiet, clean, leaked>>

\* the read a route makes after its model method (get_vote_count,
\* get_votes_by_feature) raises at place k: the route's own except clause
\* answers 500
route_read_fault(p, k) ==
    /\ pc[p] \in ReadPcs
    /\ Finish(p, InternalError)
    /\ read_raises(k)
    /\ quiet' = [quiet EXCEPT ![p] = TRUE]
    /\ UNCHANGED <<db, tx, writer, now, uuids, arg, rowcount, raised, clean>>

\* the first storage call of a request of kind op raises, before it has read
\* or written anything (at place k, when that call is a read method)
first_call_fault(p, op, k) ==
    /\ pc[p] = "idle"
    /\ op \in Ops
    /\ arg' = [arg EXCEPT ![p] = Arg(op, 0, NoUser)]
    /\ IF op \in {"vote", "retract", "create", "update"}
         THEN /\ raised' = [raised EXCEPT ![p] = TRUE]
              /\ Finish(p, MethodFailure(op))
              /\ UNCHANGED leaked
         ELSE /\ UNCHANGED raised
              /\ Finish(p, InternalError)
              /\ read_raises(k)
    /\ UNCHANGED <<db, tx, writer, now, uuids, rowcount, quiet, clean>>

\* SpecFault: the mutations of the API and Feature.save on an existing id,
\* with storage calls that may raise.  What a failure does to the stored rows
\* and to the answer does not depend on the place at which a read raises, so
\* here reads raise in sqlite3.connect; SpecLeak takes both places
NextFault ==
    \/ Mutations
    \/ \E p \in Callers, f \in FeatureIds, title \in Titles : save_update(p, f, title)
    \/ \E p \in Callers : model_method_fault(p)
    \/ \E p \in Callers : route_read_fault(p, 0)
    \/ \E p \in Callers, op \in Ops : first_call_fault(p, op, 0)

SpecFault == Init /\ [][NextFault]_vars

\* SpecLeak: features are created and read, with storage calls that may raise
\* at either place; the connections left open are counted
NextLeak ==
    \/ \E p \in Callers, title \in TitleInputs : save_insert(p, title, "")
    \/ \E p \in Callers : save_commit(p)
    \/ Reads
    \/ \E p \in Callers : Return(p)
    \/ \E p \in Callers : model_method_fault(p)
    \/ \E p \in Callers, k \in RaisePlaces : route_read_fault(p, k)
    \/ \E p \in Callers, op \in Ops, k \in RaisePlaces : first_call_fault(p, op, k)

SpecLeak == Init /\ [][NextLeak]_vars

\* ================================================================ claims
\* a finished vote request for the pair (f, u)
VoteDone(p, f, u) ==
    pc[p] = "done" /\ arg[p] = Arg("vote", f, u)

\* the callers holding a vote request, under way or finished, for the pair (f, u)
Racers(f, u) == {p \in Callers : pc[p] # "idle" /\ arg[p] = Arg("vote", f, u)}

\* S is a finished race on the pair (f, u): S is the whole group of callers
\* holding a vote request for it, at least two; each has finished, began while
\* the feature existed and the user had no vote, and since then neither the
\* feature nor a vote of the user was removed and no caller left the group
Raced(S, f, u) ==
    /\ S = Racers(f, u)
    /\ Cardinality(S) >= 2
    /\ \A p \in S : VoteDone(p, f, u) /\ clean[p]

\* C1: in every reachable state the votes relation holds at most one row for
\* each (feature_id, user_id) pair
C1_UniquePair ==
    \A v \in db.votes : \A w \in db.votes :
        (v.feature_id = w.feature_id /\ v.user_id = w.user_id) => v = w

\* C1 witness: two requests raced on one pair; the INSERT of the second was
\* refused by the constraint and one row is stored
C1_Witness ==
    \E p \in Callers : \E q \in Callers \ {p} :
        /\ VoteDone(p, arg[p].f, arg[p].u) /\ raised[p]
        /\ VoteDone(q, arg[p].f, arg[p].u) /\ resp[q].code = 201
        /\ Cardinality(PairRows(db, arg[p].f, arg[p].u)) = 1

\* C2: no reachable state contains a vote row whose feature_id has no feature
\* row (a vote racing with the delete of its feature either fails with
\* 'Feature not found' or is removed by the delete)
C2_NoOrphanVotes ==
    \A v \in db.votes : Present(db, v.feature_id)

\* C3: when two or more callers race on castVote(F, u), F existing throughout
\* and u having no vote before, exactly one call succeeds and exactly one vote
\* row (F, u) exists afterwards
C3_ExactlyOneSuccess ==
    \A f \in FeatureIds : \A u \in Users : \A S \in SUBSET Callers :
        Raced(S, f, u) =>
            /\ Cardinality({p \in S : resp[p].code = 201}) = 1
            /\ Cardinality(PairRows(db, f, u)) = 1

\* C3 witness: every caller took part in one race, and one of them went all
\* the way to the INSERT before losing
C3_Witness ==
    \E f \in FeatureIds : \E u \in Users :
        /\ Raced(Callers, f, u)
        /\ \E p \in Callers : raised[p]
        /\ \E p \in Callers : resp[p].code = 201 /\ resp[p].vote_count = 1

\* C4: every losing call of such a race fails with the duplicate-vote outcome
\* ('User has already voted for this feature', 409)
C4_LosersSeeDuplicateVote ==
    \A f \in FeatureIds : \A u \in Users : \A S \in SUBSET Callers :
        Raced(S, f, u) =>
            \A p \in S : resp[p].code # 201 =>
                /\ resp[p].code = 409
                /\ resp[p].msg = "User has already voted for this feature"

\* a feature id that was assigned once and whose row is gone: a deleted feature
Deleted(d, f) == f <= d.feature_seq /\ ~Present(d, f)

\* a deleted feature never exists again (ids are AUTOINCREMENT, never reused)
StaysDeleted ==
    \A f \in FeatureIds : Deleted(db, f) => Deleted(db', f)

\* C5: when deleteFeature(F) succeeds, the state at its completion holds neither
\* the feature row F nor any vote row of F, however many votes F had; from then
\* on F stays absent, so getFeature(F) and votesOfFeature(F) answer
\* 'Feature not found' (404)
C5_DeleteCascades ==
    [][ /\ \A p \in Callers :
             (pc[p] = "del_commit" /\ pc'[p] = "done" /\ resp'[p].code = 200) =>
                 /\ ~Present(db', arg[p].f)
                 /\ Rows(db', arg[p].f) = {}
                 /\ Deleted(db', arg[p].f)
        /\ StaysDeleted
        /\ \A p \in Callers :
             (pc[p] = "idle" /\ pc'[p] # "idle" /\ arg'[p].op \in {"get", "votes"}
                /\ Deleted(db, arg'[p].f)) =>
                 /\ pc'[p] = "done"
                 /\ resp'[p].code = 404
                 /\ resp'[p].msg = "Feature not found" ]_vars

\* C5 witness: a delete has succeeded on the only feature ever created, for
\* which votes had been cast; no row of it is left and a getFeature on it was
\* answered 404
C5_Witness ==
    \E p \in Callers : \E q \in Callers :
        /\ pc[p] = "done" /\ arg[p].op = "get" /\ resp[p].code = 404
        /\ Deleted(db, arg[p].f) /\ Rows(db, arg[p].f) = {}
        /\ db.vote_seq > 0 /\ db.votes = {} /\ db.feature_seq = 1
        /\ pc[q] = "done" /\ arg[q].op = "delete" /\ resp[q].code = 200

\* C6: every mutation is all-or-nothing.  The database changes only in the
\* commit step of a mutation, which installs the whole working copy and does
\* not fail; a step in which a mutation fails (its except clause runs) leaves
\* the database unchanged and comes before that mutation's commit; and a
\* delete changes the database in one step that removes the feature row and
\* all its votes together
CommitPcs == {"save_commit", "del_commit", "av_commit", "rv_commit"}
C7_VoteOnMissingFeature ==
    [][ /\ \A p \in Callers :
             (pc[p] = "idle" /\ pc'[p] # "idle" /\ arg'[p].op = "vote"
                /\ ~Present(db, arg'[p].f)) =>
                 /\ pc'[p] = "done"
                 /\ resp'[p].code = 404
                 /\ resp'[p].msg = "Feature not found"
                 /\ db' = db /\ tx' = tx /\ writer' = writer
        /\ StaysDeleted ]_vars

\* C7 witness: a vote on a deleted feature was answered 404
C7_Witness ==
    \E p \in Callers :
        /\ pc[p] = "done" /\ arg[p].op = "vote" /\ arg[p].f \in FeatureIds
        /\ Deleted(db, arg[p].f)
        /\ resp[p].code = 404
        /\ Rows(db, arg[p].f) = {}

\* C8: when castVote(F, u), having found F, checks for a duplicate while a vote
\* row (F, u) exists, it ends with 'User has already voted for this feature'
\* (409) and leaves the database, hence voteCount(F), unchanged
C8_DuplicateVoteRejected ==
    [][ \A p \in Callers :
          (pc[p] = "av_dup" /\ pc'[p] # "av_dup"
             /\ PairRows(db, arg[p].f, arg[p].u) # {}) =>
              /\ pc'[p] = "done"
              /\ resp'[p].code = 409
              /\ resp'[p].msg = "User has already voted for this feature"
              /\ db' = db /\ tx' = tx /\ writer' = writer ]_vars

\* C8 witness: a vote was answered 409 and the one earlier row of the pair is stored
C8_Witness ==
    \E p \in Callers :
        /\ pc[p] = "done" /\ arg[p].op = "vote" /\ resp[p].code = 409
        /\ Cardinality(PairRows(db, arg[p].f, arg[p].u)) = 1
        /\ Present(db, arg[p].f)

\* the commit of a vote request adds exactly one row, for the request's pair
AddsOneRow(p) ==
    (pc[p] = "av_commit" /\ pc'[p] = "av_count") =>
        /\ db'.features = db.features
        /\ db.votes \subseteq db'.votes
        /\ \E v \in db'.votes \ db.votes :
              /\ db'.votes \ db.votes = {v}
              /\ v.feature_id = arg[p].f /\ v.user_id = arg[p].u

\* C9 as claimed: a successful castVote(F, u) adds exactly the row (F, u) and
\* returns the number of votes F had before the call plus one, when no other
\* operation on F runs between the insert and the count
C9_CountIsStartPlusOne ==
    [][ \A p \in Callers :
          /\ AddsOneRow(p)
          /\ (pc[p] = "av_count" /\ pc'[p] = "done" /\ resp'[p].code = 201 /\ quiet[p]) =>
                resp'[p].vote_count = startCount[p] + 1 ]_vars

\* C9 amended: a successful castVote(F, u) adds exactly the row (F, u) and
\* returns the number of votes F had just before its insert was committed plus
\* one, when no other operation on F commits between the insert and the count
C9_CountIsInsertPlusOne ==
    [][ \A p \in Callers :
          /\ AddsOneRow(p)
          /\ (pc[p] = "av_count" /\ pc'[p] = "done" /\ resp'[p].code = 201 /\ quiet[p]) =>
                /\ resp'[p].vote_count = insCount[p] + 1
                /\ resp'[p].user_id = arg[p].u ]_vars

\* C9 witness: a vote on a feature that already had a vote was answered 201
\* with count 2, and the feature's two votes are stored
C9_Witness ==
    \E p \in Callers :
        /\ pc[p] = "done" /\ arg[p].op = "vote"
        /\ resp[p].code = 201 /\ resp[p].vote_count = 2
        /\ Cardinality(Rows(db, arg[p].f)) = 2
        /\ Cardinality(PairRows(db, arg[p].f, arg[p].u)) = 1

\* the commit of a successful retract removes exactly the row of the request's pair
RemovesOneRow(p) ==
    (pc[p] = "rv_commit" /\ pc'[p] = "rv_count") =>
        /\ db'.features = db.features
        /\ db'.votes \subseteq db.votes
        /\ \E v \in db.votes \ db'.votes :
              /\ db.votes \ db'.votes = {v}
              /\ v.feature_id = arg[p].f /\ v.user_id = arg[p].u

\* C10 as claimed: a successful retractVote(F, u) removes exactly the row (F, u)
\* and returns a count one lower than voteCount(F) before the call
C10_CountIsStartMinusOne ==
    [][ \A p \in Callers :
          /\ RemovesOneRow(p)
          /\ (pc[p] = "rv_count" /\ pc'[p] = "done" /\ resp'[p].code = 200) =>
                resp'[p].vote_count = startCount[p] - 1 ]_vars

\* C10 amended: the same, when no other operation on F commits between the
\* removal and the count read
C10_CountIsStartMinusOneQuiet ==
    [][ \A p \in Callers :
          /\ RemovesOneRow(p)
          /\ (pc[p] = "rv_count" /\ pc'[p] = "done" /\ resp'[p].code = 200 /\ quiet[p]) =>
                resp'[p].vote_count = startCount[p] - 1 ]_vars

\* C10 witness: a retract was answered 200 with count 0 while the user's vote
\* for another feature is still stored
C10_Witness ==
    \E p \in Callers :
        /\ pc[p] = "done" /\ arg[p].op = "retract" /\ resp[p].code = 200
        /\ resp[p].vote_count = 0
        /\ PairRows(db, arg[p].f, arg[p].u) = {}
        /\ \E v \in db.votes : v.user_id = arg[p].u /\ v.feature_id # arg[p].f

\* C15: every deleteFeature(id) whose delete finds no feature row with that id
\* is answered 'Feature not found' (404): both an id that is absent when the
\* request begins and a row removed by another delete after this request's
\* existence check
C15_DeleteOfMissingIsNotFound ==
    [][ \A p \in Callers :
          (/\ pc[p] \in {"idle", "del_commit"} /\ pc'[p] = "done"
           /\ arg'[p].op = "delete"
           /\ ~Present(db, arg'[p].f)) =>
              /\ resp'[p].code = 404
              /\ resp'[p].msg = "Feature not found" ]_vars

\* C11: retractVote(F, u) with no vote row (F, u), whether or not F exists, is
\* answered 'Vote not found' (404) and leaves the database unchanged; and a
\* castVote(F, u) that immediately follows a successful retractVote(F, u)
\* succeeds with the vote_count F had before the retraction
C11_RetractMissingAndRecast ==
    [][ /\ \A p \in Callers :
             (/\ pc[p] = "rv_commit" /\ pc'[p] # "rv_commit"
              /\ PairRows(db, arg[p].f, arg[p].u) = {}) =>
                 /\ pc'[p] = "done"
                 /\ resp'[p].code = 404
                 /\ resp'[p].msg = "Vote not found"
                 /\ db' = db
        /\ \A p \in Callers :
             (/\ retracted # NoRetract /\ Alone(p)
              /\ pc[p] # "done" /\ pc'[p] = "done"
              /\ Req(p) = Arg("vote", retracted.f, retracted.u)) =>
                 /\ resp'[p].code = 201
                 /\ resp'[p].vote_count = retracted.n ]_vars

\* C16: when a storage call fails during castVote or retractVote, the request
\* is answered with a failure of its own kind, not with the status of a
\* validation error (400), of NotFound (404) or of DuplicateVote (409); and
\* retractVote answers 404 only when no vote row of the pair existed
C16_StorageFailureIsDistinct ==
    [][ /\ \A p \in Callers :
             (/\ raised'[p] /\ ~raised[p]
              /\ Req(p).op \in {"vote", "retract"}) =>
                 resp'[p].code \notin {400, 404, 409}
        /\ \A p \in Callers :
             (/\ pc[p] # "done" /\ pc'[p] = "done"
              /\ Req(p).op = "retract" /\ Req(p).u # NoUser
              /\ resp'[p].code = 404) =>
                 PairRows(db, Req(p).f, Req(p).u) = {} ]_vars

\* the feature ids stored in database d
Ids(d) == {r.id : r \in d.features}

\* C17: feature ids are unique, strictly increasing and never reused: every
\* step that adds features gives them ids greater than every id assigned before
\* (stored now or deleted: the AUTOINCREMENT counter never decreases and bounds
\* every stored id), a successful createFeature stores exactly the id it reports,
\* and the creates of different callers report different ids
C17_FeatureIdsIncrease ==
    [][ /\ \A i \in Ids(db') \ Ids(db) :
             /\ i > db.feature_seq
             /\ \A j \in Ids(db) : i > j
        /\ db'.feature_seq >= db.feature_seq
        /\ \A r \in db'.features : r.id <= db'.feature_seq
        /\ \A r1 \in db'.features : \A r2 \in db'.features : r1.id = r2.id => r1 = r2
        /\ \A p \in Callers :
             (pc[p] = "save_commit" /\ pc'[p] = "done" /\ arg[p].op = "create") =>
                 /\ resp'[p].code = 201
                 /\ Ids(db') \ Ids(db) = {arg[p].f}
        /\ \A p \in Callers : \A q \in Callers \ {p} :
             (/\ pc'[p] = "done" /\ arg'[p].op = "create" /\ resp'[p].code = 201
              /\ pc'[q] = "done" /\ arg'[q].op = "create" /\ resp'[q].code = 201) =>
                 arg'[p].f # arg'[q].f ]_vars

\* C17 witness: feature 1 was deleted and the create that followed was given
\* id 2; both callers' creates succeeded with different ids
C17_Witness ==
    \E p \in Callers : \E q \in Callers \ {p} :
        /\ pc[p] = "done" /\ arg[p].op = "create" /\ resp[p].code = 201 /\ arg[p].f = 2
        /\ pc[q] = "done" /\ arg[q].op = "create" /\ resp[q].code = 201 /\ arg[q].f = 1
        /\ Ids(db) = {2} /\ db.feature_seq = 2

\* the callers holding a vote request, under way or finished, for feature f
VotersOn(f) == {p \in Callers : pc[p] # "idle" /\ arg[p].op = "vote" /\ arg[p].f = f}

\* the user ids of the vote requests of the callers in S
UsersOf(S) == {arg[p].u : p \in S}

\* C20: when the callers voting for one feature, at least two and each for a
\* different user, have all finished, each having begun while the feature
\* existed and its user had no vote, with no delete of the feature and no
\* retract of these votes, every one of them has succeeded and the feature
\* holds exactly one vote for each of them (and no other vote, when no other
\* vote was ever cast)
C20_DistinctUsersAllSucceed ==
    \A f \in FeatureIds :
        (/\ Cardinality(VotersOn(f)) >= 2
         /\ Cardinality(UsersOf(VotersOn(f))) = Cardinality(VotersOn(f))
         /\ \A p \in VotersOn(f) : pc[p] = "done" /\ clean[p]) =>
            /\ \A p \in VotersOn(f) :
                  /\ resp[p].code = 201
                  /\ resp[p].user_id = arg[p].u
                  /\ resp[p].vote_count >= 1
                  /\ Cardinality(PairRows(db, f, arg[p].u)) = 1
            /\ Cardinality({v \in Rows(db, f) : v.user_id \in UsersOf(VotersOn(f))})
                  = Cardinality(VotersOn(f))
            /\ db.vote_seq = Cardinality(VotersOn(f)) =>
                  Cardinality(Rows(db, f)) = Cardinality(VotersOn(f))

\* C20 witness: both callers voted for one feature as different users, their
\* requests interleaved so that both read the count after both commits, and
\* the feature holds the two votes
C20_Witness ==
    \E f \in FeatureIds :
        /\ VotersOn(f) = Callers
        /\ Cardinality(UsersOf(Callers)) = NumCallers
        /\ \A p \in Callers : pc[p] = "done" /\ clean[p] /\ resp[p].code = 201
                                /\ resp[p].vote_count = NumCallers
        /\ Cardinality(Rows(db, f)) = NumCallers

\* caller p holds a vote request that came without a user_id
Anonymous(p) == pc[p] # "idle" /\ arg[p].op = "vote" /\ arg[p].u \notin Users

\* C19: castVote without a user_id on a feature that exists (and is not deleted
\* meanwhile) succeeds and returns the generated user_id; the generated user_id
\* differs from the user_id of every stored vote and from every other generated
\* one, and the vote raises the feature's vote count by exactly one
C19_AnonymousVoteSucceeds ==
    [][ /\ \A p \in Callers :
             (pc[p] = "idle" /\ pc'[p] # "idle" /\ arg'[p].op = "vote"
                /\ arg'[p].u \notin Users) =>
                 /\ \A v \in db.votes \cup tx.votes : v.user_id # arg'[p].u
                 /\ \A q \in Callers \ {p} : Anonymous(q) => arg[q].u # arg'[p].u
        /\ \A p \in Callers :
             (Anonymous(p) /\ pc[p] = "av_commit" /\ pc'[p] # "av_commit") =>
                 Cardinality(Rows(db', arg[p].f)) = Cardinality(Rows(db, arg[p].f)) + 1
        /\ \A p \in Callers :
             (Anonymous(p) /\ pc[p] # "done" /\ pc'[p] = "done" /\ clean'[p]) =>
                 /\ resp'[p].code = 201
                 /\ resp'[p].user_id = arg[p].u
                 /\ Cardinality(PairRows(db', arg[p].f, arg[p].u)) = 1 ]_vars

\* C19 witness: both callers voted for one feature without a user_id; they were
\* given different user_ids and the feature holds the two votes
C19_Witness ==
    \E f \in FeatureIds :
        /\ \A p \in Callers : Anonymous(p) /\ pc[p] = "done" /\ arg[p].f = f
                                /\ resp[p].code = 201 /\ resp[p].user_id = arg[p].u
        /\ Cardinality({resp[p].user_id : p \in Callers}) = NumCallers
        /\ Cardinality(Rows(db, f)) = NumCallers
        /\ \E p \in Callers : resp[p].vote_count = NumCallers

\* C12: the sequence the ranking query returns is sorted by vote_count
\* descending and, among equal vote_counts, by creation time descending: of two
\* adjacent items the first has more votes, or as many and a created_at not
\* earlier.  Its items are features of the database with their numbers of
\* votes, and without a limit it holds every feature once
C12_RankingSorted ==
    [][ \A p \in Callers :
          (pc[p] = "idle" /\ pc'[p] = "gl_total") =>
              /\ \A i \in 1..(Len(resp'[p].features) - 1) :
                    \/ resp'[p].features[i].vote_count > resp'[p].features[i + 1].vote_count
                    \/ /\ resp'[p].features[i].vote_count = resp'[p].features[i + 1].vote_count
                       /\ resp'[p].features[i].created_at >= resp'[p].features[i + 1].created_at
              /\ \A i \in 1..Len(resp'[p].features) :
                    \E r \in db.features :
                        /\ r.id = resp'[p].features[i].id
                        /\ r.created_at = resp'[p].features[i].created_at
                        /\ Cardinality(Rows(db, r.id)) = resp'[p].features[i].vote_count
              /\ arg'[p].limit = NoLimit =>
                    /\ Len(resp'[p].features) = Cardinality(db.features)
                    /\ {resp'[p].features[i].id : i \in 1..Len(resp'[p].features)} = Ids(db) ]_vars

\* C12 witness: a listing without limit puts the older feature, which has a
\* vote, before the newer one, which has none
C12_Witness ==
    \E p \in Callers :
        /\ pc[p] = "done" /\ arg[p].op = "list" /\ arg[p].limit = NoLimit
        /\ resp[p].code = 200 /\ Len(resp[p].features) = 2
        /\ resp[p].features[1].vote_count = 1 /\ resp[p].features[2].vote_count = 0
        /\ resp[p].features[1].created_at < resp[p].features[2].created_at

\* the listing caller p holds is a full listing of the data as it is now
Current(p) ==
    /\ pc[p] = "done" /\ arg[p].op = "list" /\ arg[p].limit = NoLimit
    /\ resp[p].code = 200
    /\ {resp[p].features[i] : i \in 1..Len(resp[p].features)} = Items(db)
    /\ Len(resp[p].features) = Cardinality(Items(db))

\* C13: two ranking calls on the same data return the same sequence, also when
\* features agree in vote_count and created_at
C13_RankingDeterministic ==
    \A p \in Callers : \A q \in Callers :
        (Current(p) /\ Current(q)) => resp[p].features = resp[q].features

\* C14: listFeatures(limit = k, offset = o) with k >= 0 and o >= 0 returns the
\* elements at positions [o, o + k) of the full ranked sequence, and
\* returned_count is the length of what it returns
C14_PageIsSliceOfRanking ==
    [][ /\ \A p \in Callers :
             (pc[p] = "idle" /\ pc'[p] = "gl_total" /\ arg'[p].limit # NoLimit) =>
                 \E full \in get_all_with_votes(db) :
                     /\ Len(resp'[p].features) =
                           IF arg'[p].offset >= Len(full) THEN 0
                           ELSE IF arg'[p].offset + arg'[p].limit > Len(full)
                                  THEN Len(full) - arg'[p].offset
                                  ELSE arg'[p].limit
                     /\ \A i \in 1..Len(resp'[p].features) :
                           resp'[p].features[i] = full[arg'[p].offset + i]
        /\ \A p \in Callers :
             (pc[p] = "gl_total" /\ pc'[p] = "done") =>
                 resp'[p].returned_count = Len(resp'[p].features) ]_vars

\* s is empty or holds nothing but whitespace
Blank(s) == \E i \in 0..(2 * MaxPad) : s = Rep(" ", i)

\* C18: createFeature is answered with a validation error (400) and creates
\* nothing when the title is missing, empty or whitespace-only, when the title
\* has more than 200 characters or when the description has more than 1000;
\* otherwise it stores exactly one new feature, with the trimmed title and
\* description, and answers 201 with vote_count 0
C18_CreateValidates ==
    [][ /\ \A p \in Callers :
             (pc[p] = "idle" /\ pc'[p] # "idle" /\ arg'[p].op = "create") =>
                 IF \/ Blank(arg'[p].title)
                    \/ Len(arg'[p].title) > 200
                    \/ Len(arg'[p].description) > 1000
                   THEN /\ pc'[p] = "done"
                        /\ resp'[p].code = 400
                        /\ db' = db /\ tx' = tx /\ writer' = writer
                   ELSE pc'[p] = "save_commit"
        /\ \A p \in Callers :
             (pc[p] = "save_commit" /\ pc'[p] # "save_commit" /\ arg[p].op = "create") =>
                 /\ pc'[p] = "done"
                 /\ resp'[p].code = 201
                 /\ resp'[p].vote_count = 0
                 /\ db.features \subseteq db'.features
                 /\ db'.votes = db.votes
                 /\ Rows(db', arg[p].f) = {}
                 /\ \E r \in db'.features :
                       /\ db'.features \ db.features = {r}
                       /\ r.id = arg[p].f
                       /\ r.title \in Texts /\ Trimmed(arg[p].title, r.title)
                       /\ r.description \in Texts /\ Trimmed(arg[p].description, r.description) ]_vars

\* C18 witness: a title of exactly 200 characters with a description of exactly
\* 1000 was stored, and a title of 201 characters was refused
C18_Witness ==
    \E p \in Callers : \E q \in Callers :
        /\ pc[p] = "done" /\ arg[p].op = "create" /\ resp[p].code = 201
        /\ Len(arg[p].title) = 200 /\ Len(arg[p].description) = 1000
        /\ \E r \in db.features : r.id = arg[p].f /\ Len(r.title) = 200
        /\ pc[q] = "done" /\ arg[q].op = "create" /\ resp[q].code = 400
        /\ Len(arg[q].title) = 201
        /\ resp[q].msg = "Title too long (max 200 characters)"

\* C21: in one listFeatures response total_count and the page come from one
\* snapshot: total_count is the number of features of the state the page was
\* taken from, which for a listing without limit is the length of the page
C21_TotalCountOfSameSnapshot ==
    \A p \in Callers :
        (pc[p] = "done" /\ arg[p].op = "list" /\ resp[p].code = 200
           /\ arg[p].limit = NoLimit) =>
            /\ resp[p].total_count = Len(resp[p].features)
            /\ resp[p].returned_count <= resp[p].total_count

\* C22: the ranking holds every existing feature exactly once and nothing
\* else, and the vote_count of each is the number of vote rows naming that
\* feature: 0 for a feature without votes, whatever votes other features have
C22_RankingCounts ==
    [][ \A p \in Callers :
          (pc[p] = "idle" /\ pc'[p] = "gl_total" /\ arg'[p].limit = NoLimit) =>
              /\ \A r \in db.features :
                    Cardinality({i \in 1..Len(resp'[p].features) :
                                    resp'[p].features[i].id = r.id}) = 1
              /\ \A i \in 1..Len(resp'[p].features) :
                    /\ Present(db, resp'[p].features[i].id)
                    /\ resp'[p].features[i].vote_count =
                          Cardinality(Rows(db, resp'[p].features[i].id))
                    /\ Rows(db, resp'[p].features[i].id) = {} =>
                          resp'[p].features[i].vote_count = 0 ]_vars

\* C22 witness: a listing shows one feature with the votes of both users and
\* another feature with none
C22_Witness ==
    \E p \in Callers :
        /\ pc[p] = "done" /\ arg[p].op = "list" /\ arg[p].limit = NoLimit
        /\ resp[p].code = 200 /\ Len(resp[p].features) = 2
        /\ resp[p].features[1].vote_count = 2 /\ resp[p].features[2].vote_count = 0
        /\ Cardinality(db.votes) = 2

\* C25: listFeatures with an offset o > 0 and no limit skips the first o
\* features of the ranked sequence and returns the rest
C25_OffsetWithoutLimitSkips ==
    [][ \A p \in Callers :
          (pc[p] = "idle" /\ pc'[p] = "gl_total" /\ arg'[p].limit = NoLimit
             /\ arg'[p].offset > 0) =>
              \E full \in get_all_with_votes(db) :
                  /\ Len(resp'[p].features) =
                        IF arg'[p].offset >= Len(full) THEN 0
                        ELSE Len(full) - arg'[p].offset
                  /\ \A i \in 1..Len(resp'[p].features) :
                        resp'[p].features[i] = full[arg'[p].offset + i] ]_vars

\* caller p holds the page (limit, offset) of a ranking of the data as it is now
PageOfNow(p, limit, offset) ==
    /\ pc[p] = "done" /\ arg[p].op = "list" /\ resp[p].code = 200
    /\ arg[p].limit = limit /\ arg[p].offset = offset
    /\ resp[p].total_count = Cardinality(db.features)
    /\ \E full \in get_all_with_votes(db) : resp[p].features = Slice(full, offset, limit)

\* C26: with no mutation between the calls, the pages (limit k, offset 0) and
\* (limit k, offset k), k >= 1, share no feature, and together they hold the
\* first 2k features, also when the features tie on vote_count and created_at
C26_PagesDisjoint ==
    \A p \in Callers : \A q \in Callers : \A k \in 1..MaxLimit :
        (PageOfNow(p, k, 0) /\ PageOfNow(q, k, k)) =>
            /\ \A i \in 1..Len(resp[p].features) : \A j \in 1..Len(resp[q].features) :
                  resp[p].features[i].id # resp[q].features[j].id
            /\ Len(resp[p].features) + Len(resp[q].features) =
                  IF Cardinality(db.features) < 2 * k
                    THEN Cardinality(db.features) ELSE 2 * k

UserIds == Users \cup {v.user_id : v \in db.votes}

\* C27: in every reachable state the read paths agree: hasVoted(F, u) iff a
\* vote row (F, u) exists iff F is among votesForUser(u), which names each
\* feature at most once; and for every existing feature F, voteCount(F) is the
\* number of votesForFeature(F) and the vote_count the ranking shows for F
C27_ReadPathsAgree ==
    /\ \A f \in FeatureIds : \A u \in UserIds :
          /\ has_voted(db, f, u) <=> (PairRows(db, f, u) # {})
          /\ has_voted(db, f, u) <=> (\E v \in get_user_votes(db, u) : v.feature_id = f)
          /\ Cardinality({v \in get_user_votes(db, u) : v.feature_id = f}) <= 1
    /\ \A f \in FeatureIds :
          Present(db, f) =>
              /\ get_vote_count(db, f) = Cardinality(get_votes_by_feature(db, f))
              /\ get_vote_count(db, f) = Cardinality(Rows(db, f))
              /\ \A s \in get_all_with_votes(db) : \A i \in 1..Len(s) :
                    s[i].id = f => s[i].vote_count = get_vote_count(db, f)

\* C27 witness: a user's votes were read while the user had voted for two
\* features and another user for none
C27_Witness ==
    \E p \in Callers : \E u \in Users : \E w \in Users :
        /\ pc[p] = "done" /\ arg[p].op = "uservotes" /\ arg[p].u = u
        /\ resp[p].vote_count = 2
        /\ Cardinality({v \in db.votes : v.user_id = u}) = 2
        /\ \A f \in FeatureIds : Present(db, f)
        /\ \A v \in db.votes : v.user_id # w

C29_LimitOnTrimmedTitle ==
    [][ /\ \A p \in Callers :
             (pc[p] = "idle" /\ pc'[p] # "idle" /\ arg'[p].op = "create"
                /\ Len(arg'[p].description) <= 1000
                /\ \E c \in Texts : /\ Trimmed(arg'[p].title, c)
                                    /\ Len(c) >= 1 /\ Len(c) <= 200) =>
                 pc'[p] = "save_commit"
        /\ \A r \in db'.features :
             r.title \in Texts /\ Len(r.title) >= 1 /\ Len(r.title) <= 200 ]_vars

\* C30: every started operation eventually returns a result or an error, under
\* any interleaving, when the storage engine grants access fairly
C30_EveryOperationReturns ==
    \A p \in Callers : (pc[p] \notin {"idle", "done"}) ~> (pc[p] = "done")

\* C30 witness: a vote request waits for the write lock another request holds
C30_Witness ==
    \E p \in Callers : \E q \in Callers :
        /\ pc[p] = "av_insert" /\ q # p /\ writer = {q}

\* the successful answers of the requests that change the database
Succeeded(p) ==
    \/ arg[p].op = "create" /\ resp'[p].code = 201
    \/ arg[p].op = "update" /\ resp'[p].msg = "True"
    \/ arg[p].op = "delete" /\ resp'[p].code = 200

\* C24: a mutation that has returned success is visible to every read that
\* starts afterwards: success is answered only once the change is committed,
\* and every read returns what the committed rows say at the moment it reads
C24_ReadsSeeCompletedMutations ==
    [][ \A p \in Callers :
          /\ (pc[p] \in {"save_commit", "del_commit", "av_commit", "rv_commit"}
                /\ pc'[p] # pc[p]) =>
                 /\ db' = tx
                 /\ arg[p].op = "create" => Present(db', arg[p].f)
                 /\ arg[p].op = "update" =>
                       \A r \in db'.features : r.id = arg[p].f => r.title = arg[p].title
                 /\ arg[p].op = "delete" => ~Present(db', arg[p].f)
                 /\ arg[p].op = "vote" => PairRows(db', arg[p].f, arg[p].u) # {}
                 /\ arg[p].op = "retract" => PairRows(db', arg[p].f, arg[p].u) = {}
          /\ (pc[p] # "done" /\ pc'[p] = "done"
                /\ arg'[p].op \in {"create", "update", "delete"} /\ Succeeded(p)) =>
                 pc[p] \in {"save_commit", "del_commit"}
          /\ (pc'[p] = "done" /\ arg[p].op = "vote" /\ pc[p] # "done"
                /\ resp'[p].code = 201) => pc[p] = "av_count"
          /\ pc'[p] = "av_count" /\ pc[p] # "av_count" => pc[p] = "av_commit"
          /\ (pc'[p] = "done" /\ arg[p].op = "retract" /\ pc[p] # "done"
                /\ resp'[p].code = 200) => pc[p] = "rv_count"
          /\ pc'[p] = "rv_count" /\ pc[p] # "rv_count" => pc[p] = "rv_commit"
          /\ (pc[p] = "idle" /\ pc'[p] # "idle" /\ arg'[p].op \in {"get", "votes"}) =>
                 (resp'[p].code = 404 <=> ~Present(db, arg'[p].f))
          /\ (pc[p] = "gf_count" /\ pc'[p] = "done") =>
                 resp'[p].vote_count = Cardinality(Rows(db, arg[p].f))
          /\ (pc[p] = "fv_read" /\ pc'[p] = "done") =>
                 {resp'[p].votes[i] : i \in 1..Len(resp'[p].votes)} = Rows(db, arg[p].f)
          /\ (pc[p] = "idle" /\ pc'[p] = "done" /\ arg'[p].op = "uservotes") =>
                 {resp'[p].voted_features[i] : i \in 1..Len(resp'[p].voted_features)} =
                     {f \in FeatureIds : PairRows(db, f, arg'[p].u) # {}}
          /\ (pc[p] = "idle" /\ pc'[p] = "gl_total") =>
                 {[id |-> it.id, title |-> it.title, vote_count |-> it.vote_count] :
                      it \in {resp'[p].features[i] : i \in 1..Len(resp'[p].features)}} =
                     {[id |-> r.id, title |-> r.title,
                       vote_count |-> Cardinality(Rows(db, r.id))] : r \in db.features}
          /\ (pc[p] = "av_dup" /\ pc'[p] = "done" /\ resp'[p].code = 409) =>
                 PairRows(db, arg[p].f, arg[p].u) # {} ]_vars

\* C24 witness: a read of a feature shows the vote and the new title that a
\* vote request and an update, both answered with success, gave it
C24_Witness ==
    \E p \in Callers : \E q \in Callers : \E r \in db.features :
        /\ pc[p] = "done" /\ arg[p].op = "update" /\ resp[p].msg = "True"
        /\ pc[q] = "done" /\ arg[q].op = "list" /\ resp[q].code = 200
        /\ r.id = arg[p].f /\ r.title = "Export"
        /\ Len(resp[q].features) = 2
        /\ resp[q].features[1].id = r.id
        /\ resp[q].features[1].title = "Export"
        /\ resp[q].features[1].vote_count = 1

\* C31: the vote_count a successful castVote(F, u) returns is at least 1 under
\* every interleaving: it counts the caller's own vote
C31_OwnVoteCounted ==
    \A p \in Callers :
        (pc[p] = "done" /\ arg[p].op = "vote" /\ resp[p].code = 201) =>
            resp[p].vote_count >= 1

\* the rows of database d other than the vote rows of the pair (f, u)
FeaturesBut(d, f) == {r \in d.features : r.id # f}
VotesBut(d, f, u) == {v \in d.votes : ~(v.feature_id = f /\ v.user_id = u)}
VotesOfOthers(d, f) == {v \in d.votes : v.feature_id # f}

\* C32: vote and feature operations keep to their own rows: castVote and
\* retractVote change no feature row and no vote row but that of their (F, u);
\* createFeature changes no vote row; deleteFeature(F) leaves every other
\* feature and the votes of other features as they were
C32_OperationsKeepToTheirRows ==
    [][ db' # db =>
          \E p \in Callers :
              /\ pc[p] \in {"save_commit", "del_commit", "av_commit", "rv_commit"}
              /\ pc'[p] # pc[p]
              /\ arg[p].op \in {"vote", "retract"} =>
                    /\ db'.features = db.features
                    /\ VotesBut(db', arg[p].f, arg[p].u) = VotesBut(db, arg[p].f, arg[p].u)
              /\ arg[p].op = "create" =>
                    /\ db'.votes = db.votes
                    /\ db.features \subseteq db'.features
              /\ arg[p].op = "delete" =>
                    /\ FeaturesBut(db', arg[p].f) = FeaturesBut(db, arg[p].f)
                    /\ VotesOfOthers(db', arg[p].f) = VotesOfOthers(db, arg[p].f) ]_vars

\* C32 witness: a feature was deleted while another feature and its vote stay
C32_Witness ==
    \E p \in Callers : \E r \in db.features :
        /\ pc[p] = "done" /\ arg[p].op = "delete" /\ resp[p].code = 200
        /\ r.id # arg[p].f /\ r.id < arg[p].f
        /\ Rows(db, r.id) # {}
        /\ ~Present(db, arg[p].f)

\* C33: Feature.save with an id returns True only if a feature row with that
\* id exists and was updated; for an id without a row it returns False and
\* creates no row
C33_SaveReportsMissingRow ==
    [][ \A p \in Callers :
          (pc[p] = "save_commit" /\ pc'[p] = "done" /\ arg[p].op = "update") =>
              /\ resp'[p].msg = "True" => Present(db', arg[p].f)
              /\ ~Present(db, arg[p].f) => ~Present(db', arg[p].f) ]_vars

\* C34: every operation closes the connection it opened on every path, also
\* when a storage call raises: whenever no operation is in flight, no
\* connection is open
C34_NoConnectionLeftOpen ==
    (\A p \in Callers : pc[p] \in {"idle", "done"}) => OpenConnections = 0

====
